---- MODULE Spec2Model ----
(***************************************************************************)
(* Model of opendbc/car/hyundai/hyundaicanfd.py: the CAN-FD frame          *)
(* composers of the Hyundai port (bus resolver, steering, suppressor,      *)
(* cancel, cluster overlay, accel control, ADAS keep-alive schedule).      *)
(*                                                                         *)
(* A Python dict is a function with a set of strings as its domain.  A     *)
(* frame descriptor is the triple handed to packer.make_can_msg.  A call   *)
(* that raises is a result with status "KeyError" and no frames.           *)
(* Accelerations are integers in units of 1/Scale m/s^2, speeds (vEgo) in  *)
(* 1/100 m/s, the cruise display speed in 1/VRes km/h.                     *)
(***************************************************************************)
EXTENDS Integers, Sequences, FiniteSets, TLC

VARIABLES op, done, CP, CAN, arg, ret, accel_last, frame, sent, hist

vars == <<op, done, CP, CAN, arg, ret, accel_last, frame, sent, hist>>

(* ---------------------------- bounds ---------------------------------- *)
MaxOffset == 4
MaxMul == 2
MaxAdd == 2
MaxCounter == 1
MaxTorque == 1
Scale == 20
MaxAccel == 5
MaxCruise == 330
MaxFrame == 104
MaxBars == 1

(* ----------------------- dict / value helpers ------------------------- *)
Has(d, k) == k \in DOMAIN d

Put(d, k, v) == [x \in (DOMAIN d) \cup {k} |-> IF x = k THEN v ELSE d[x]]

Update(d, e) == [x \in (DOMAIN d) \cup (DOMAIN e) |-> IF x \in DOMAIN e THEN e[x] ELSE d[x]]

Without(d, ks) == [x \in (DOMAIN d) \ ks |-> d[x]]

EmptyDict == [x \in {} |-> 0]

Abs(x) == IF x < 0 THEN -x ELSE x

Min(a, b) == IF a < b THEN a ELSE b

Max(a, b) == IF a > b THEN a ELSE b

make_can_msg(name, bus, values) == [msg |-> name, bus |-> bus, dat |-> values]

Ok(frames) == [status |-> "ok", frames |-> frames]

KeyError == [status |-> "KeyError", frames |-> <<>>]

NoCall == [status |-> "none", frames |-> <<>>]

(* subset copy {s: d[s] for s in keys}: raises when a key is absent *)
CanCopy(d, keys) == keys \subseteq DOMAIN d

CopyKeys(d, keys) == [s \in keys |-> d[s]]

(* ------------------------------ CanBus -------------------------------- *)
Flags == {"CANFD_LKA_STEERING", "CANFD_LKA_STEERING_ALT", "CANFD_CAMERA_SCC"}

(* CP.flags & FLAG, as a truth value *)
FlagSet(cp, f) == f \in cp.flags

(* lka_steering is "None", "True" or "False"; cp.present = FALSE is CP = None *)
LkaSteering(cp, lka_steering) ==
  IF lka_steering = "None"
    THEN (IF cp.present THEN FlagSet(cp, "CANFD_LKA_STEERING") ELSE FALSE)
    ELSE lka_steering = "True"

CanBus_swapless(cp, lka_steering, offset) ==
  [a |-> 1 + offset, e |-> 0 + offset, cam |-> 2 + offset]

CanBus(cp, lka_steering, offset) ==
  LET lka == LkaSteering(cp, lka_steering)
      a0 == IF lka THEN 0 ELSE 1
      e0 == IF lka THEN 1 ELSE 0
  IN  [a |-> a0 + offset, e |-> e0 + offset, cam |-> 2 + offset]

ECAN(can) == can.e

ACAN(can) == can.a

CAM(can) == can.cam

(* ----------------------- create_steering_messages --------------------- *)
common_values(enabled, lat_active, apply_torque) ==
  [LKA_MODE |-> 2,
   LKA_ICON |-> IF enabled THEN 2 ELSE 1,
   TORQUE_REQUEST |-> apply_torque,
   LKA_ASSIST |-> 0,
   STEER_REQ |-> IF lat_active THEN 1 ELSE 0,
   STEER_MODE |-> 0,
   HAS_LANE_SAFETY |-> 0,
   NEW_SIGNAL_2 |-> 0]

create_steering_messages_always_lfa(cp, can, enabled, lat_active, apply_torque) ==
  LET cv == common_values(enabled, lat_active, apply_torque)
      lkas_values == Put(cv, "LKA_AVAILABLE", 0)
      lfa_values == Put(cv, "NEW_SIGNAL_1", 0)
      lkas_msg == IF FlagSet(cp, "CANFD_LKA_STEERING_ALT") THEN "LKAS_ALT" ELSE "LKAS"
  IN  IF FlagSet(cp, "CANFD_LKA_STEERING")
        THEN << make_can_msg("LFA", ECAN(can), lfa_values),
                make_can_msg(lkas_msg, ACAN(can), lkas_values) >>
        ELSE << make_can_msg("LFA", ECAN(can), lfa_values) >>

create_steering_messages(cp, can, enabled, lat_active, apply_torque) ==
  LET cv == common_values(enabled, lat_active, apply_torque)
      lkas_values == Put(cv, "LKA_AVAILABLE", 0)
      lfa_values == Put(cv, "NEW_SIGNAL_1", 0)
      lkas_msg == IF FlagSet(cp, "CANFD_LKA_STEERING_ALT") THEN "LKAS_ALT" ELSE "LKAS"
  IN  IF FlagSet(cp, "CANFD_LKA_STEERING")
        THEN (IF cp.openpilotLongitudinalControl
                THEN << make_can_msg("LFA", ECAN(can), lfa_values) >>
                ELSE << >>)
             \o << make_can_msg(lkas_msg, ACAN(can), lkas_values) >>
        ELSE << make_can_msg("LFA", ECAN(can), lfa_values) >>

(* -------------------------- create_suppress_lfa ----------------------- *)
ByteName ==
  << "BYTE0", "BYTE1", "BYTE2", "BYTE3", "BYTE4", "BYTE5", "BYTE6", "BYTE7",
     "BYTE8", "BYTE9", "BYTE10", "BYTE11", "BYTE12", "BYTE13", "BYTE14", "BYTE15",
     "BYTE16", "BYTE17", "BYTE18", "BYTE19", "BYTE20", "BYTE21", "BYTE22", "BYTE23",
     "BYTE24", "BYTE25", "BYTE26", "BYTE27", "BYTE28", "BYTE29", "BYTE30", "BYTE31" >>

(* f"BYTE{i}" *)
Byte(i) == ByteName[i + 1]

msg_bytes(lka_steering_alt) == IF lka_steering_alt THEN 32 ELSE 24

CopiedIdx_shifted(lka_steering_alt) == { i \in 3 .. (msg_bytes(lka_steering_alt) - 2) : i # 7 }

(* the indices the comprehension ranges over: range(3, msg_bytes) if i != 7 *)
CopiedIdx(lka_steering_alt) == { i \in 3 .. (msg_bytes(lka_steering_alt) - 1) : i # 7 }

SuppressKeys(lka_steering_alt) == { Byte(i) : i \in CopiedIdx(lka_steering_alt) }

create_suppress_lfa(can, lfa_block_msg, lka_steering_alt) ==
  LET suppress_msg == IF lka_steering_alt THEN "CAM_0x362" ELSE "CAM_0x2a4"
      keys == SuppressKeys(lka_steering_alt)
  IN  IF ~ CanCopy(lfa_block_msg, keys \cup {"COUNTER"})
        THEN KeyError
        ELSE LET v0 == CopyKeys(lfa_block_msg, keys)
                 v1 == Put(v0, "COUNTER", lfa_block_msg["COUNTER"])
                 v2 == Put(v1, "SET_ME_0", 0)
                 v3 == Put(v2, "SET_ME_0_2", 0)
                 v4 == Put(v3, "LEFT_LANE_LINE", 0)
                 v5 == Put(v4, "RIGHT_LANE_LINE", 0)
             IN  Ok(<< make_can_msg(suppress_msg, ACAN(can), v5) >>)

(* --------------------------- create_acc_cancel ------------------------ *)
CancelKeys(cp) ==
  IF FlagSet(cp, "CANFD_CAMERA_SCC")
    THEN {"COUNTER", "CHECKSUM", "NEW_SIGNAL_1", "MainMode_ACC", "ACCMode",
          "ZEROS_9", "CRUISE_STANDSTILL", "ZEROS_5", "DISTANCE_SETTING", "VSetDis"}
    ELSE {"COUNTER", "CHECKSUM", "ACCMode", "VSetDis", "CRUISE_STANDSTILL"}

create_acc_cancel_tolerant(cp, can, cruise_info_copy) ==
  LET values == Update(CopyKeys(cruise_info_copy, CancelKeys(cp) \cap DOMAIN cruise_info_copy),
                       [ACCMode |-> 4, aReqRaw |-> 0, aReqValue |-> 0])
  IN  Ok(<< make_can_msg("SCC_CONTROL", ECAN(can), values) >>)

create_acc_cancel(cp, can, cruise_info_copy) ==
  IF ~ CanCopy(cruise_info_copy, CancelKeys(cp))
    THEN KeyError
    ELSE LET values == Update(CopyKeys(cruise_info_copy, CancelKeys(cp)),
                              [ACCMode |-> 4, aReqRaw |-> 0, aReqValue |-> 0])
         IN  Ok(<< make_can_msg("SCC_CONTROL", ECAN(can), values) >>)

(* ------------------------------ create_ccnc --------------------------- *)
(* if msg.get(k) in codes: msg[k] = v  (a missing field reads as None) *)
SetIf(d, k, codes, v) == IF Has(d, k) /\ d[k] \in codes THEN Put(d, k, v) ELSE d

FaultFields == {"FAULT_LSS", "FAULT_HDA", "FAULT_DAS", "FAULT_LFA", "FAULT_DAW"}

VEgoLow == 894

(* CV.KPH_TO_MPH = 1 / 1.609344 = KphToMphNum / KphToMphDen *)
KphToMphNum == 15625

KphToMphDen == 25146

VRes == 2

(* Python round() of the non-negative rational num / den: half to even *)
PyRound(num, den) ==
  LET q == num \div den
      r == num % den
  IN  IF 2 * r < den THEN q
      ELSE IF 2 * r > den THEN q + 1
      ELSE IF q % 2 = 0 THEN q ELSE q + 1

(* s := round(CS.out.vCruiseCluster * (1 if CS.is_metric else CV.KPH_TO_MPH)) *)
ConvertedSpeed(vCruiseCluster, is_metric) ==
  IF is_metric THEN PyRound(vCruiseCluster, VRes)
               ELSE PyRound(vCruiseCluster * KphToMphNum, VRes * KphToMphDen)

SetSpeedSpeed_cap100(vCruiseCluster, is_metric) ==
  LET s == ConvertedSpeed(vCruiseCluster, is_metric)
  IN  IF s > 100 THEN 100 ELSE s

SetSpeedSpeed(vCruiseCluster, is_metric) ==
  LET s == ConvertedSpeed(vCruiseCluster, is_metric)
  IN  IF s > 100 THEN 25 ELSE s

LaneLine_depart_first(visible, depart, active, blindspot, vEgo) ==
  IF depart THEN 4
  ELSE IF ~ visible THEN 1
  ELSE IF ~ active THEN 0
  ELSE IF blindspot \/ vEgo < VEgoLow THEN 2
  ELSE 6

(* LANELINE_LEFT / LANELINE_RIGHT; active is (lat_active or enabled) *)
LaneLine(visible, depart, active, blindspot, vEgo) ==
  IF ~ visible THEN 1
  ELSE IF depart THEN 4
  ELSE IF ~ active THEN 0
  ELSE IF blindspot \/ vEgo < VEgoLow THEN 2
  ELSE 6

Overlay161(cp, cc, cs, lat_active) ==
  LET enabled == cc.enabled
      hud == cc.hudControl
      active == lat_active \/ enabled
      a0 == cs.msg_161
      a1 == SetIf(a0, "ALERTS_3", {17}, 0)
      a2 == SetIf(a1, "ALERTS_5", {2}, 0)
      a3 == SetIf(a2, "ALERTS_5", {4}, 0)
      a4 == SetIf(a3, "ALERTS_5", {5}, 0)
      a5 == IF Has(a4, "ALERTS_2") /\ a4["ALERTS_2"] = 5
              THEN Update(a4, [ALERTS_2 |-> 0, SOUNDS_2 |-> 0]) ELSE a4
      a6 == IF Has(a5, "SOUNDS_4") /\ a5["SOUNDS_4"] = 2
               /\ Has(a5, "LFA_ICON") /\ a5["LFA_ICON"] \in {3, 0}
              THEN Put(a5, "SOUNDS_4", 0) ELSE a5
      a7 == Update(a6,
              [DAW_ICON |-> 0,
               LKA_ICON |-> 0,
               LFA_ICON |-> IF active THEN 2 ELSE 1,
               CENTERLINE |-> IF active THEN 1 ELSE 0,
               LANELINE_LEFT |-> LaneLine(hud.leftLaneVisible, hud.leftLaneDepart,
                                          active, cs.out.leftBlindspot, cs.out.vEgo),
               LANELINE_RIGHT |-> LaneLine(hud.rightLaneVisible, hud.rightLaneDepart,
                                           active, cs.out.rightBlindspot, cs.out.vEgo),
               LCA_LEFT_ARROW |-> IF cc.leftBlinker THEN 2 ELSE 0,
               LCA_RIGHT_ARROW |-> IF cc.rightBlinker THEN 2 ELSE 0,
               LANE_LEFT |-> IF cc.leftBlinker THEN 1 ELSE 0,
               LANE_RIGHT |-> IF cc.rightBlinker THEN 1 ELSE 0])
      a8 == Update(a7,
              [SETSPEED |-> IF enabled THEN 3 ELSE 1,
               SETSPEED_HUD |-> IF enabled THEN 2 ELSE 1,
               SETSPEED_SPEED |-> SetSpeedSpeed(cs.out.vCruiseCluster, cs.is_metric),
               DISTANCE |-> hud.leadDistanceBars,
               DISTANCE_SPACING |-> IF enabled THEN 1 ELSE 0,
               DISTANCE_LEAD |-> IF enabled /\ hud.leadVisible THEN 2
                                 ELSE IF enabled THEN 1 ELSE 0,
               DISTANCE_CAR |-> IF enabled THEN 2 ELSE 1,
               SLA_ICON |-> 0])
      a9 == SetIf(a8, "ALERTS_3", {1, 2, 3, 4, 7, 8, 9, 10}, 0)
      a10 == SetIf(a9, "NAV_ICON", {2, 4}, 1)
  IN  IF cp.openpilotLongitudinalControl THEN a10 ELSE a7

Overlay162(cp, cc, cs) ==
  LET hud == cc.hudControl
      b0 == cs.msg_162
      b1 == Update(b0, [f \in FaultFields |-> 0])
      b2 == IF hud.leftLaneDepart \/ hud.rightLaneDepart THEN Put(b1, "VIBRATE", 1) ELSE b1
  IN  IF cp.openpilotLongitudinalControl THEN Put(b2, "LEAD", 0) ELSE b2

(* the frames returned, and CS as the call leaves it (the overlays are     *)
(* applied to CS.msg_161.copy() and CS.msg_162.copy())                     *)
create_ccnc_inplace(can, cp, cc, cs, lat_active) ==
  [status |-> "ok",
   frames |-> << make_can_msg("CCNC_0x161", ECAN(can), Overlay161(cp, cc, cs, lat_active)),
                 make_can_msg("CCNC_0x162", ECAN(can), Overlay162(cp, cc, cs)) >>,
   CS |-> [cs EXCEPT !.msg_161 = Overlay161(cp, cc, cs, lat_active),
                     !.msg_162 = Overlay162(cp, cc, cs)]]

create_ccnc(can, cp, cc, cs, lat_active) ==
  [status |-> "ok",
   frames |-> << make_can_msg("CCNC_0x161", ECAN(can), Overlay161(cp, cc, cs, lat_active)),
                 make_can_msg("CCNC_0x162", ECAN(can), Overlay162(cp, cc, cs)) >>,
   CS |-> cs]

(* --------------------------- create_acc_control ----------------------- *)
jerk == 5

Rate == 50

(* jn = jerk / 50, in units of 1/Scale m/s^2 *)
jn == (jerk * Scale) \div Rate

np_clip(x, lo, hi) == Min(Max(x, lo), hi)

AccelPair_noclip(enabled, gas_override, accel_last_, accel) ==
  IF ~ enabled \/ gas_override
    THEN [a_raw |-> 0, a_val |-> 0]
    ELSE [a_raw |-> accel, a_val |-> accel]

AccelPair_fromzero(enabled, gas_override, accel_last_, accel) ==
  IF ~ enabled \/ gas_override
    THEN [a_raw |-> 0, a_val |-> 0]
    ELSE [a_raw |-> accel, a_val |-> np_clip(accel, 0 - jn, 0 + jn)]

(* a_raw, a_val = (0, 0) if not enabled or gas_override else (accel, clip(...)) *)
AccelPair(enabled, gas_override, accel_last_, accel) ==
  IF ~ enabled \/ gas_override
    THEN [a_raw |-> 0, a_val |-> 0]
    ELSE [a_raw |-> accel, a_val |-> np_clip(accel, accel_last_ - jn, accel_last_ + jn)]

ObjKeys == {"ACC_ObjDist", "ACC_ObjRelSpd"}

(* cruise_info.present = FALSE is cruise_info = None *)
create_acc_control(can, enabled, accel_last_, accel, stopping, gas_override, set_speed, hud_control, cruise_info) ==
  LET p == AccelPair(enabled, gas_override, accel_last_, accel)
      values ==
        [ACCMode |-> IF ~ enabled THEN 0 ELSE (IF gas_override THEN 2 ELSE 1),
         MainMode_ACC |-> 1,
         StopReq |-> IF stopping THEN 1 ELSE 0,
         aReqValue |-> p.a_val,
         aReqRaw |-> p.a_raw,
         VSetDis |-> set_speed,
         JerkLowerLimit |-> IF enabled THEN jerk ELSE 1,
         JerkUpperLimit |-> 3,
         ObjValid |-> 0,
         OBJ_STATUS |-> 2,
         SET_ME_2 |-> 4,
         SET_ME_3 |-> 3,
         SET_ME_TMP_64 |-> 100,
         DISTANCE_SETTING |-> hud_control.leadDistanceBars]
  IN  IF ~ cruise_info.present
        THEN Ok(<< make_can_msg("SCC_CONTROL", ECAN(can), Update(values, [ACC_ObjDist |-> 1])) >>)
        ELSE IF ~ CanCopy(cruise_info.d, ObjKeys)
          THEN KeyError
          ELSE Ok(<< make_can_msg("SCC_CONTROL", ECAN(can),
                                  Update(values, CopyKeys(cruise_info.d, ObjKeys))) >>)

(* the host control loop's carried previous value: advanced to the shaped  *)
(* value on an engaged cycle, left alone on a disabled or overridden one   *)
HostAccelLast(enabled, gas_override, accel_last_, frames) ==
  IF ~ enabled \/ gas_override \/ frames = << >>
    THEN accel_last_
    ELSE frames[1].dat["aReqValue"]

(* ------------------ create_fca_warning_light / adrv ------------------- *)
create_fca_warning_light(can, n) ==
  IF n % 2 = 0
    THEN << make_can_msg("ADRV_0x160", ECAN(can),
              [AEB_SETTING |-> 1, SET_ME_2 |-> 2, SET_ME_FF |-> 255,
               SET_ME_FC |-> 252, SET_ME_9 |-> 9]) >>
    ELSE << >>

create_adrv_messages_every4(can, n) ==
  << make_can_msg("ADRV_0x51", ACAN(can), EmptyDict) >>
  \o create_fca_warning_light(can, n)
  \o (IF n % 4 = 0
        THEN << make_can_msg("ADRV_0x1ea", ECAN(can),
                  [SET_ME_1C |-> 28, SET_ME_FF |-> 255, SET_ME_TMP_F |-> 15,
                   SET_ME_TMP_F_2 |-> 15]),
                make_can_msg("ADRV_0x200", ECAN(can),
                  [SET_ME_E1 |-> 225, SET_ME_3A |-> 58]) >>
        ELSE << >>)
  \o (IF n % 20 = 0
        THEN << make_can_msg("ADRV_0x345", ECAN(can), [SET_ME_15 |-> 21]) >>
        ELSE << >>)
  \o (IF n % 100 = 0
        THEN << make_can_msg("ADRV_0x1da", ECAN(can), [SET_ME_22 |-> 34, SET_ME_41 |-> 65]) >>
        ELSE << >>)

create_adrv_messages(can, n) ==
  << make_can_msg("ADRV_0x51", ACAN(can), EmptyDict) >>
  \o create_fca_warning_light(can, n)
  \o (IF n % 5 = 0
        THEN << make_can_msg("ADRV_0x1ea", ECAN(can),
                  [SET_ME_1C |-> 28, SET_ME_FF |-> 255, SET_ME_TMP_F |-> 15,
                   SET_ME_TMP_F_2 |-> 15]),
                make_can_msg("ADRV_0x200", ECAN(can),
                  [SET_ME_E1 |-> 225, SET_ME_3A |-> 58]) >>
        ELSE << >>)
  \o (IF n % 20 = 0
        THEN << make_can_msg("ADRV_0x345", ECAN(can), [SET_ME_15 |-> 21]) >>
        ELSE << >>)
  \o (IF n % 100 = 0
        THEN << make_can_msg("ADRV_0x1da", ECAN(can), [SET_ME_22 |-> 34, SET_ME_41 |-> 65]) >>
        ELSE << >>)

(* ======================= state machine ================================ *)
(* op: the composer the host calls; done: it has been called; CP, CAN:     *)
(* the platform parameters and the resolved buses; arg: the call's other   *)
(* arguments; ret: what the call returned; accel_last: the host's carried  *)
(* shaped value; frame: the cycle counter; sent: frames emitted so far by  *)
(* message identity; hist: history of earlier cycles / of the arguments.   *)

NoBus == [a |-> -1, e |-> -1, cam |-> -1]

NoCP == [present |-> FALSE, flags |-> {}, openpilotLongitudinalControl |-> FALSE]

CarParams(flags, long) == [present |-> TRUE, flags |-> flags, openpilotLongitudinalControl |-> long]

Idle == /\ accel_last = 0
        /\ frame = 0
        /\ sent = EmptyDict
        /\ ret = NoCall
        /\ done = FALSE

(* ------------------------------- CanBus ------------------------------- *)
InitBus ==
  /\ op = "CanBus"
  /\ CP \in {NoCP} \cup { CarParams(f, l) : f \in SUBSET Flags, l \in BOOLEAN }
  /\ arg \in [lka_steering : {"None", "True", "False"}, offset : 0 .. MaxOffset]
  /\ CAN = NoBus
  /\ hist = EmptyDict
  /\ Idle

NewCanBus ==
  /\ op = "CanBus" /\ ~ done
  /\ CAN' = CanBus(CP, arg.lka_steering, arg.offset)
  /\ done' = TRUE
  /\ UNCHANGED <<op, CP, arg, ret, accel_last, frame, sent, hist>>

NextBus == NewCanBus

SpecBus == InitBus /\ [][NextBus]_vars

(* ------------------------------ steering ------------------------------ *)
InitSteer ==
  /\ op = "steering"
  /\ CP \in { CarParams(f, l) : f \in SUBSET Flags, l \in BOOLEAN }
  /\ \E off \in 0 .. MaxOffset : CAN = CanBus(CP, "None", off)
  /\ arg \in [enabled : BOOLEAN, lat_active : BOOLEAN, apply_torque : (0 - MaxTorque) .. MaxTorque]
  /\ hist = EmptyDict
  /\ Idle

CallSteering ==
  /\ op = "steering" /\ ~ done
  /\ ret' = Ok(create_steering_messages(CP, CAN, arg.enabled, arg.lat_active, arg.apply_torque))
  /\ done' = TRUE
  /\ UNCHANGED <<op, CP, CAN, arg, accel_last, frame, sent, hist>>

NextSteer == CallSteering

SpecSteer == InitSteer /\ [][NextSteer]_vars

(* ------------------------- relayed snapshots -------------------------- *)
(* a camera lane-assist snapshot: nbytes data fields whose values differ   *)
(* by index, the fields the suppressor overrides, the counter; withLow     *)
(* adds BYTE0..BYTE2 and BYTE7                                             *)
LfaBlockMsg(nbytes, withLow, mul, add, counter) ==
  LET idx == { i \in 0 .. (nbytes - 1) : withLow \/ (i >= 3 /\ i # 7) }
      bytes == [k \in { Byte(i) : i \in idx } |->
                  LET i == CHOOSE j \in idx : Byte(j) = k IN (i * mul + add + 1) % 256]
  IN  Update(bytes, [COUNTER |-> counter, CHECKSUM |-> 77, SET_ME_0 |-> 1, SET_ME_0_2 |-> 1,
                     LEFT_LANE_LINE |-> 2, RIGHT_LANE_LINE |-> 3])

CruiseInfo(counter, mode, vset) ==
  [COUNTER |-> counter, CHECKSUM |-> 77, NEW_SIGNAL_1 |-> 1, MainMode_ACC |-> 1,
   ACCMode |-> mode, ZEROS_9 |-> 0, CRUISE_STANDSTILL |-> 1, ZEROS_5 |-> 0,
   DISTANCE_SETTING |-> 3, VSetDis |-> vset, aReqRaw |-> 5, aReqValue |-> 4,
   ACC_ObjDist |-> 9, ACC_ObjRelSpd |-> 2]

Msg161(al2, al3, al5, snd, lfa, nav, counter) ==
  [ALERTS_2 |-> al2, ALERTS_3 |-> al3, ALERTS_5 |-> al5, SOUNDS_2 |-> snd, SOUNDS_4 |-> 2 * snd,
   LFA_ICON |-> lfa, NAV_ICON |-> nav, DAW_ICON |-> 1, LKA_ICON |-> 3, CENTERLINE |-> 0,
   LANELINE_LEFT |-> 5, LANELINE_RIGHT |-> 5, LCA_LEFT_ARROW |-> 1, LCA_RIGHT_ARROW |-> 1,
   LANE_LEFT |-> 0, LANE_RIGHT |-> 0, SETSPEED |-> 2, SETSPEED_HUD |-> 0, SETSPEED_SPEED |-> 77,
   DISTANCE |-> 4, DISTANCE_SPACING |-> 0, DISTANCE_LEAD |-> 0, DISTANCE_CAR |-> 0,
   SLA_ICON |-> 1, COUNTER |-> counter, CHECKSUM |-> 77, BACKGROUND |-> 3]

Msg162(k, counter) ==
  [FAULT_LSS |-> k, FAULT_HDA |-> k, FAULT_DAS |-> k, FAULT_LFA |-> k, FAULT_DAW |-> k,
   VIBRATE |-> 0, LEAD |-> 2 * k + 1, COUNTER |-> counter, CHECKSUM |-> 77, LEAD_DISTANCE |-> 40]

Hud(lv, ld, rv, rd, bars, lead) ==
  [leftLaneVisible |-> lv, leftLaneDepart |-> ld, rightLaneVisible |-> rv,
   rightLaneDepart |-> rd, leadDistanceBars |-> bars, leadVisible |-> lead]

CarControl(enabled, lb, rb, hud) ==
  [enabled |-> enabled, leftBlinker |-> lb, rightBlinker |-> rb, hudControl |-> hud]

CarStateOut(lbs, rbs, vEgo, vCruiseCluster) ==
  [leftBlindspot |-> lbs, rightBlindspot |-> rbs, vEgo |-> vEgo, vCruiseCluster |-> vCruiseCluster]

CarState(m161, m162, out, is_metric) ==
  [msg_161 |-> m161, msg_162 |-> m162, out |-> out, is_metric |-> is_metric]

VEgoSamples == {0, VEgoLow - 1, VEgoLow, VEgoLow + 1, 3 * VEgoLow}

BaseHud == Hud(TRUE, FALSE, TRUE, FALSE, 2, FALSE)

BaseOut == CarStateOut(FALSE, FALSE, 3 * VEgoLow, 60 * VRes)

Base161 == Msg161(0, 0, 0, 0, 1, 0, 0)

Base162 == Msg162(1, 0)

(* the argument families of the cluster overlay *)
CcncLaneArgs ==
  { [CC |-> CarControl(en, FALSE, FALSE, Hud(lv, ld, rv, rd, 2, FALSE)),
     CS |-> CarState(Base161, Base162, CarStateOut(lbs, rbs, v, 60 * VRes), TRUE),
     lat_active |-> la] :
    en \in BOOLEAN, la \in BOOLEAN, lv \in BOOLEAN, ld \in BOOLEAN, rv \in BOOLEAN,
    rd \in BOOLEAN, lbs \in BOOLEAN, rbs \in BOOLEAN, v \in VEgoSamples }

CcncSpeedArgs ==
  { [CC |-> CarControl(en, FALSE, FALSE, BaseHud),
     CS |-> CarState(Base161, Base162, CarStateOut(FALSE, FALSE, 3 * VEgoLow, vc), metric),
     lat_active |-> en] :
    en \in BOOLEAN, metric \in BOOLEAN, vc \in 0 .. MaxCruise }

CcncHudArgs ==
  { [CC |-> CarControl(en, lb, rb, Hud(TRUE, FALSE, TRUE, FALSE, bars, lead)),
     CS |-> CarState(Base161, Base162, BaseOut, TRUE),
     lat_active |-> FALSE] :
    en \in BOOLEAN, lb \in BOOLEAN, rb \in BOOLEAN, bars \in 0 .. MaxBars, lead \in BOOLEAN }

CcncSnapArgs ==
  { [CC |-> CarControl(en, FALSE, FALSE, BaseHud),
     CS |-> CarState(Msg161(al2, al3, al5, snd, lfa, nav, c), Msg162(c, c), BaseOut, TRUE),
     lat_active |-> en] :
    en \in BOOLEAN, al2 \in {0, 5, 6}, al3 \in {0, 3, 5, 10, 17},
    al5 \in {0, 2, 4, 5, 6}, snd \in {0, 1}, lfa \in {0, 1, 3}, nav \in {0, 2, 4},
    c \in 0 .. MaxCounter }

InitCcnc ==
  /\ op = "ccnc"
  /\ CP \in { CarParams({}, l) : l \in BOOLEAN }
  /\ \E off \in {0, MaxOffset} : CAN = CanBus(CP, "None", off)
  /\ arg \in CcncLaneArgs \cup CcncSpeedArgs \cup CcncHudArgs \cup CcncSnapArgs
  /\ hist = [CS0 |-> arg.CS]
  /\ Idle

CallCcnc ==
  /\ op = "ccnc" /\ ~ done
  /\ LET r == create_ccnc(CAN, CP, arg.CC, arg.CS, arg.lat_active)
     IN  /\ ret' = [status |-> r.status, frames |-> r.frames]
         /\ arg' = [arg EXCEPT !.CS = r.CS]
  /\ done' = TRUE
  /\ UNCHANGED <<op, CP, CAN, accel_last, frame, sent, hist>>

NextCcnc == CallCcnc

SpecCcnc == InitCcnc /\ [][NextCcnc]_vars

(* ------------------------------ accel --------------------------------- *)
Engaged(a) == a.enabled /\ ~ a.gas_override

NoCruiseInfo == [present |-> FALSE, d |-> EmptyDict]

WellFormedCruiseInfo ==
  {NoCruiseInfo, [present |-> TRUE, d |-> CruiseInfo(0, 1, 30)]}

AnyCruiseInfo ==
  WellFormedCruiseInfo
  \cup { [present |-> TRUE, d |-> Without(CruiseInfo(0, 1, 30), {k})] : k \in ObjKeys }

NoCycle ==
  [enabled |-> FALSE, gas_override |-> FALSE, accel_last |-> 0, accel |-> 0,
   stopping |-> FALSE, cruise_info |-> NoCruiseInfo]

NoHist == [prev_engaged |-> FALSE, prev_val |-> 0, had |-> FALSE, last_shaped |-> 0]

ShapedOf(r) == IF r.frames = << >> THEN 0 ELSE r.frames[1].dat["aReqValue"]

(* one control cycle: the composer call, then the host's update of the     *)
(* carried value; hist records the cycles before this one                  *)
AccStep(enabled, gas_override, accel, stopping, cruise_info) ==
  LET r == create_acc_control(CAN, enabled, accel_last, accel, stopping, gas_override,
                              30, [leadDistanceBars |-> 2], cruise_info)
  IN  /\ ret' = r
      /\ accel_last' = HostAccelLast(enabled, gas_override, accel_last, r.frames)
      /\ arg' = [enabled |-> enabled, gas_override |-> gas_override, accel_last |-> accel_last,
                 accel |-> accel, stopping |-> stopping, cruise_info |-> cruise_info]
      /\ hist' = [prev_engaged |-> done /\ Engaged(arg),
                  prev_val |-> ShapedOf(ret),
                  had |-> hist.had \/ (done /\ Engaged(arg)),
                  last_shaped |-> IF done /\ Engaged(arg) THEN ShapedOf(ret) ELSE hist.last_shaped]
      /\ done' = TRUE
      /\ UNCHANGED <<op, CP, CAN, frame, sent>>

InitAcc ==
  /\ op = "acc"
  /\ CP = CarParams({}, TRUE)
  /\ CAN = CanBus(CP, "None", 0)
  /\ arg = NoCycle
  /\ hist = NoHist
  /\ Idle

AccCycle ==
  /\ op = "acc"
  /\ \E enabled \in BOOLEAN, gas_override \in BOOLEAN, stopping \in BOOLEAN,
        accel \in (0 - MaxAccel) .. MaxAccel, ci \in WellFormedCruiseInfo :
       AccStep(enabled, gas_override, accel, stopping, ci)

NextAcc == AccCycle

SpecAcc == InitAcc /\ [][NextAcc]_vars

(* --------------------- ADAS keep-alive schedule ----------------------- *)
AdrvNames == {"ADRV_0x51", "ADRV_0x160", "ADRV_0x1ea", "ADRV_0x200", "ADRV_0x345", "ADRV_0x1da"}

CountOf(frames, name) == Cardinality({ i \in 1 .. Len(frames) : frames[i].msg = name })

InitAdrv ==
  /\ op = "adrv"
  /\ CP \in { CarParams(f, TRUE) : f \in SUBSET {"CANFD_LKA_STEERING"} }
  /\ \E off \in 0 .. MaxOffset : CAN = CanBus(CP, "None", off)
  /\ arg = EmptyDict
  /\ hist = EmptyDict
  /\ accel_last = 0
  /\ frame = 0
  /\ sent = [n \in AdrvNames |-> 0]
  /\ ret = NoCall
  /\ done = FALSE

(* one control cycle: the composer call with the cycle counter, the frames *)
(* handed on, the counter advanced by one                                  *)
AdrvCycle ==
  /\ op = "adrv"
  /\ frame < MaxFrame
  /\ LET fs == create_adrv_messages(CAN, frame)
     IN  /\ ret' = Ok(fs)
         /\ sent' = [n \in AdrvNames |-> sent[n] + CountOf(fs, n)]
  /\ frame' = frame + 1
  /\ done' = TRUE
  /\ UNCHANGED <<op, CP, CAN, arg, accel_last, hist>>

NextAdrv == AdrvCycle

SpecAdrv == InitAdrv /\ [][NextAdrv]_vars

(* ------------------ composers on incomplete snapshots ----------------- *)
Rules161 == Msg161(5, 17, 2, 1, 0, 2, 1)

Fields161 == DOMAIN Rules161

Fields162 == DOMAIN Base162

Missing161 == {{}} \cup { {f} : f \in Fields161 }
              \cup { {"ALERTS_2", "ALERTS_3", "ALERTS_5", "SOUNDS_2", "SOUNDS_4", "NAV_ICON"} }

Missing162 == {{}} \cup { {f} : f \in Fields162 } \cup { FaultFields }

InitSnapCcnc ==
  /\ op = "ccnc"
  /\ CP \in { CarParams({}, l) : l \in BOOLEAN }
  /\ CAN = CanBus(CP, "None", 0)
  /\ \E en \in BOOLEAN, m1 \in Missing161, m2 \in Missing162 :
       /\ m1 = {} \/ m2 = {}
       /\ arg = [CC |-> CarControl(en, FALSE, FALSE, BaseHud),
                 CS |-> CarState(Without(Rules161, m1), Without(Base162, m2), BaseOut, TRUE),
                 lat_active |-> en]
  /\ hist = [CS0 |-> arg.CS]
  /\ Idle

InitSnapSuppress ==
  /\ op = "suppress_lfa"
  /\ CP \in { CarParams(f, FALSE) : f \in SUBSET {"CANFD_LKA_STEERING", "CANFD_LKA_STEERING_ALT"} }
  /\ CAN = CanBus(CP, "None", 0)
  /\ \E nbytes \in {24, 32}, withLow \in BOOLEAN, mul \in 0 .. MaxMul, add \in 0 .. MaxAdd,
        c \in 0 .. MaxCounter, m \in {{}, {"COUNTER"}, {"BYTE5"}, {"SET_ME_0", "LEFT_LANE_LINE"}},
        alt \in BOOLEAN :
       arg = [lfa_block_msg |-> Without(LfaBlockMsg(nbytes, withLow, mul, add, c), m),
              lka_steering_alt |-> alt]
  /\ hist = EmptyDict
  /\ Idle

InitSnapCancel ==
  /\ op = "acc_cancel"
  /\ CP \in { CarParams(f, TRUE) : f \in SUBSET {"CANFD_CAMERA_SCC"} }
  /\ CAN = CanBus(CP, "None", 0)
  /\ \E c \in 0 .. MaxCounter, mode \in {0, 1, 2}, vset \in {0, 30},
        m \in {{}} \cup { {k} : k \in DOMAIN CruiseInfo(0, 0, 0) } :
       arg = [cruise_info_copy |-> Without(CruiseInfo(c, mode, vset), m)]
  /\ hist = EmptyDict
  /\ Idle

InitSnapAcc ==
  /\ op = "acc_control"
  /\ CP = CarParams({}, TRUE)
  /\ CAN = CanBus(CP, "None", 0)
  /\ arg = NoCycle
  /\ hist = NoHist
  /\ Idle

InitSnap == InitSnapCcnc \/ InitSnapSuppress \/ InitSnapCancel \/ InitSnapAcc

CallSuppress ==
  /\ op = "suppress_lfa" /\ ~ done
  /\ ret' = create_suppress_lfa(CAN, arg.lfa_block_msg, arg.lka_steering_alt)
  /\ done' = TRUE
  /\ UNCHANGED <<op, CP, CAN, arg, accel_last, frame, sent, hist>>

CallCancel ==
  /\ op = "acc_cancel" /\ ~ done
  /\ ret' = create_acc_cancel(CP, CAN, arg.cruise_info_copy)
  /\ done' = TRUE
  /\ UNCHANGED <<op, CP, CAN, arg, accel_last, frame, sent, hist>>

CallAccControl ==
  /\ op = "acc_control" /\ ~ done
  /\ \E enabled \in BOOLEAN, gas_override \in BOOLEAN,
        accel \in {0 - MaxAccel, MaxAccel}, ci \in AnyCruiseInfo :
       AccStep(enabled, gas_override, accel, FALSE, ci)

NextSnap == CallCcnc \/ CallSuppress \/ CallCancel \/ CallAccControl

SpecSnap == InitSnap /\ [][NextSnap]_vars

(* ======================= properties =================================== *)
Frames == ret.frames

FramePairs == { <<Frames[i].msg, Frames[i].bus>> : i \in 1 .. Len(Frames) }

(* ---- C7 ---- *)
EffectiveLka ==
  \/ arg.lka_steering = "True"
  \/ arg.lka_steering = "None" /\ CP.present /\ "CANFD_LKA_STEERING" \in CP.flags

(* C7: for both values of the LKA-steering flag and every bus offset, the  *)
(* camera bus (ACAN) differs from the ECU bus (ECAN), one of the two is    *)
(* 0 + offset and the other 1 + offset, ECAN = 0 + offset and ACAN =       *)
(* 1 + offset without the LKA-steering variant and swapped with it, and    *)
(* the relay bus (CAM) is 2 + offset.                                      *)
C7_BusIds ==
  (op = "CanBus" /\ done) =>
    /\ ACAN(CAN) # ECAN(CAN)
    /\ {ACAN(CAN), ECAN(CAN)} = {arg.offset, arg.offset + 1}
    /\ (~ EffectiveLka => ECAN(CAN) = arg.offset /\ ACAN(CAN) = arg.offset + 1)
    /\ (EffectiveLka => ECAN(CAN) = arg.offset + 1 /\ ACAN(CAN) = arg.offset)
    /\ CAM(CAN) = arg.offset + 2

C7_Witness ==
  /\ op = "CanBus" /\ done
  /\ EffectiveLka /\ arg.lka_steering = "None"
  /\ arg.offset > 0
  /\ ACAN(CAN) = arg.offset

(* ---- C9 ---- *)
SteerExpected ==
  IF "CANFD_LKA_STEERING" \in CP.flags
    THEN { << (IF "CANFD_LKA_STEERING_ALT" \in CP.flags THEN "LKAS_ALT" ELSE "LKAS"), ACAN(CAN) >> }
         \cup (IF CP.openpilotLongitudinalControl THEN { <<"LFA", ECAN(CAN)>> } ELSE {})
    ELSE { <<"LFA", ECAN(CAN)>> }

(* C9: create_steering_messages returns one or two descriptors: without    *)
(* the LKA-steering variant exactly LFA on the ECU bus; with it the LKAS    *)
(* frame (LKAS_ALT under the alt flag) on the camera bus, plus LFA on the   *)
(* ECU bus exactly when longitudinal control is owned; no two descriptors   *)
(* share identity and bus.                                                  *)
C9_SteeringFrames ==
  (op = "steering" /\ done) =>
    /\ ret.status = "ok"
    /\ Len(Frames) \in {1, 2}
    /\ FramePairs = SteerExpected
    /\ Cardinality(FramePairs) = Len(Frames)

C9_Witness ==
  /\ op = "steering" /\ done
  /\ "CANFD_LKA_STEERING" \in CP.flags
  /\ "CANFD_LKA_STEERING_ALT" \in CP.flags
  /\ ~ CP.openpilotLongitudinalControl
  /\ Len(Frames) = 1
  /\ Frames[1].msg = "LKAS_ALT"

(* ---- C3 ---- *)
Converted == ConvertedSpeed(hist.CS0.out.vCruiseCluster, hist.CS0.is_metric)

CcncLong == op = "ccnc" /\ done /\ CP.openpilotLongitudinalControl

(* C3 as stated: with longitudinal control owned, SETSPEED_SPEED is the     *)
(* rounded converted cruise speed capped at 100 (101 or more gives 100).    *)
C3_CapAt100 ==
  CcncLong => Frames[1].dat["SETSPEED_SPEED"] = (IF Converted >= 101 THEN 100 ELSE Converted)

(* C3 amended: with longitudinal control owned, SETSPEED_SPEED is the       *)
(* rounded converted cruise speed when that is 100 or less, and exactly 25  *)
(* when it is 101 or more.                                                  *)
C3_Above100Gives25 ==
  CcncLong =>
    /\ (Converted >= 101 => Frames[1].dat["SETSPEED_SPEED"] = 25)
    /\ (Converted <= 100 => Frames[1].dat["SETSPEED_SPEED"] = Converted)

C3_Witness ==
  /\ CcncLong
  /\ ~ hist.CS0.is_metric
  /\ Converted = 101
  /\ Frames[1].dat["SETSPEED_SPEED"] = 25

(* ---- C8 ---- *)
LaneOk(out, visible, depart, blindspot) ==
  LET active == arg.lat_active \/ arg.CC.enabled
      slow == hist.CS0.out.vEgo < VEgoLow
  IN  /\ (~ visible => out = 1)
      /\ (visible /\ depart => out = 4)
      /\ (visible /\ ~ depart /\ ~ active => out = 0)
      /\ (visible /\ ~ depart /\ active /\ (blindspot \/ slow) => out = 2)
      /\ (visible /\ ~ depart /\ active /\ ~ blindspot /\ ~ slow => out = 6)

(* C8: LANELINE_LEFT and LANELINE_RIGHT each follow the strict priority:    *)
(* lane not visible 1; else departing 4; else neither lat_active nor        *)
(* enabled 0; else blind spot occupied or speed below 8.94 gives 2; else 6. *)
C8_LaneLinePriority ==
  (op = "ccnc" /\ done) =>
    /\ LaneOk(Frames[1].dat["LANELINE_LEFT"], arg.CC.hudControl.leftLaneVisible,
              arg.CC.hudControl.leftLaneDepart, hist.CS0.out.leftBlindspot)
    /\ LaneOk(Frames[1].dat["LANELINE_RIGHT"], arg.CC.hudControl.rightLaneVisible,
              arg.CC.hudControl.rightLaneDepart, hist.CS0.out.rightBlindspot)

C8_Witness ==
  /\ op = "ccnc" /\ done
  /\ ~ arg.CC.hudControl.leftLaneVisible /\ arg.CC.hudControl.leftLaneDepart
  /\ arg.lat_active /\ hist.CS0.out.leftBlindspot
  /\ Frames[1].dat["LANELINE_LEFT"] = 1
  /\ Frames[1].dat["LANELINE_RIGHT"] = 6

(* ---- C10 ---- *)
Listed161 ==
  {"ALERTS_2", "ALERTS_3", "ALERTS_5", "SOUNDS_2", "SOUNDS_4", "NAV_ICON",
   "DAW_ICON", "LKA_ICON", "LFA_ICON", "CENTERLINE", "LANELINE_LEFT", "LANELINE_RIGHT",
   "LCA_LEFT_ARROW", "LCA_RIGHT_ARROW", "LANE_LEFT", "LANE_RIGHT",
   "SETSPEED", "SETSPEED_HUD", "SETSPEED_SPEED", "DISTANCE", "DISTANCE_SPACING",
   "DISTANCE_LEAD", "DISTANCE_CAR", "SLA_ICON"}

Listed162 == FaultFields \cup {"VIBRATE", "LEAD"}

PassThrough(in, out, listed) ==
  /\ \A f \in (DOMAIN in) \ listed : f \in DOMAIN out /\ out[f] = in[f]
  /\ (DOMAIN out) \ listed \subseteq DOMAIN in

(* C10: create_ccnc returns exactly two frames, CCNC_0x161 then CCNC_0x162, *)
(* both on the ECU bus; every field of an input snapshot that is not one    *)
(* of the overlay's fields has its input value in the output frame; the     *)
(* snapshots held by the vehicle state are unchanged by the call.           *)
C10_TwoFramesPassThrough ==
  (op = "ccnc" /\ done) =>
    /\ ret.status = "ok"
    /\ Len(Frames) = 2
    /\ Frames[1].msg = "CCNC_0x161" /\ Frames[2].msg = "CCNC_0x162"
    /\ Frames[1].bus = ECAN(CAN) /\ Frames[2].bus = ECAN(CAN)
    /\ PassThrough(hist.CS0.msg_161, Frames[1].dat, Listed161)
    /\ PassThrough(hist.CS0.msg_162, Frames[2].dat, Listed162)
    /\ arg.CS = hist.CS0

C10_Witness ==
  /\ op = "ccnc" /\ done
  /\ hist.CS0.msg_161["ALERTS_2"] = 5
  /\ hist.CS0.msg_161["COUNTER"] = 1
  /\ Frames[1].dat["ALERTS_2"] = 0
  /\ Frames[1].dat["COUNTER"] = 1
  /\ Frames[2].dat["FAULT_LSS"] = 0
  /\ arg.CS.msg_162["FAULT_LSS"] = 1

(* ---- C1 ---- *)
Shaped == Frames[1].dat["aReqValue"]

(* C1: over consecutive cycles with enabled = true and gas_override =      *)
(* false, where accel_last of a cycle is the shaped output of the cycle    *)
(* before, the shaped output moves by at most J/R (jn) per cycle, whatever *)
(* the requests are.                                                       *)
C1_JerkBound ==
  (op = "acc" /\ done /\ Engaged(arg) /\ hist.prev_engaged /\ arg.accel_last = hist.prev_val) =>
    Abs(Shaped - hist.prev_val) <= jn

C1_Witness ==
  /\ op = "acc" /\ done /\ Engaged(arg) /\ hist.prev_engaged
  /\ arg.accel_last = hist.prev_val
  /\ arg.accel - hist.prev_val > 2 * jn
  /\ hist.prev_val < 0
  /\ Shaped = hist.prev_val + jn

(* ---- C2 ---- *)
(* C2: a cycle with enabled = false or gas_override = true forces aReqRaw  *)
(* and aReqValue to 0 and leaves the carried previous shaped value as it   *)
(* was; the first engaged cycle after such a run has its shaped output     *)
(* within J/R of the last shaped value produced before the run, not of 0.  *)
C2_ResumeFromLastShaped ==
  (op = "acc" /\ done) =>
    /\ (~ Engaged(arg) =>
          /\ Frames[1].dat["aReqRaw"] = 0
          /\ Frames[1].dat["aReqValue"] = 0
          /\ (hist.had => accel_last = hist.last_shaped))
    /\ (Engaged(arg) /\ hist.had /\ ~ hist.prev_engaged =>
          Abs(Shaped - hist.last_shaped) <= jn)

C2_Witness ==
  /\ op = "acc" /\ done
  /\ Engaged(arg) /\ hist.had /\ ~ hist.prev_engaged
  /\ hist.prev_val = 0
  /\ hist.last_shaped > 2 * jn
  /\ arg.accel = 0
  /\ Shaped = hist.last_shaped - jn

(* ---- C4 ---- *)
SuppressOk == op = "suppress_lfa" /\ done /\ ret.status = "ok"

NumBytes == IF arg.lka_steering_alt THEN 32 ELSE 24

FourZeroed == {"SET_ME_0", "SET_ME_0_2", "LEFT_LANE_LINE", "RIGHT_LANE_LINE"}

(* C4 as stated: in both variants every data field BYTEi of the snapshot   *)
(* with i other than 7, indices 0, 1 and 2 included, is in the output with *)
(* its input value; COUNTER is copied; the four named fields are 0.        *)
C4_AllBytesButSeven ==
  SuppressOk =>
    /\ \A i \in 0 .. (NumBytes - 1) :
         (i # 7 /\ Byte(i) \in DOMAIN arg.lfa_block_msg) =>
           /\ Byte(i) \in DOMAIN Frames[1].dat
           /\ Frames[1].dat[Byte(i)] = arg.lfa_block_msg[Byte(i)]
    /\ Frames[1].dat["COUNTER"] = arg.lfa_block_msg["COUNTER"]
    /\ \A f \in FourZeroed : Frames[1].dat[f] = 0

(* C4 amended: in both variants (msg_bytes 32 and 24) the output holds     *)
(* exactly BYTEi for 3 <= i < msg_bytes, i # 7, each with its input value, *)
(* COUNTER copied unchanged, and the four named fields forced to 0;        *)
(* BYTE0, BYTE1, BYTE2 and BYTE7 are not in the output.                    *)
C4_BytesFromThree ==
  SuppressOk =>
    /\ Len(Frames) = 1
    /\ Frames[1].msg = (IF arg.lka_steering_alt THEN "CAM_0x362" ELSE "CAM_0x2a4")
    /\ Frames[1].bus = ACAN(CAN)
    /\ \A i \in 3 .. (NumBytes - 1) :
         i # 7 => /\ Byte(i) \in DOMAIN Frames[1].dat
                  /\ Frames[1].dat[Byte(i)] = arg.lfa_block_msg[Byte(i)]
    /\ Frames[1].dat["COUNTER"] = arg.lfa_block_msg["COUNTER"]
    /\ \A f \in FourZeroed : Frames[1].dat[f] = 0
    /\ DOMAIN Frames[1].dat =
         { Byte(i) : i \in (3 .. (NumBytes - 1)) \ {7} } \cup {"COUNTER"} \cup FourZeroed

C4_Witness ==
  /\ SuppressOk
  /\ arg.lka_steering_alt
  /\ "BYTE0" \in DOMAIN arg.lfa_block_msg
  /\ arg.lfa_block_msg["BYTE31"] # arg.lfa_block_msg["BYTE30"]
  /\ Frames[1].dat["BYTE31"] = arg.lfa_block_msg["BYTE31"]
  /\ arg.lfa_block_msg["LEFT_LANE_LINE"] = 2
  /\ Frames[1].dat["LEFT_LANE_LINE"] = 0
  /\ "BYTE0" \notin DOMAIN Frames[1].dat

(* ---- C5 ---- *)
(* the fields create_ccnc reads from page A, and clears on page B *)
CcncReads == {"ALERTS_2", "ALERTS_3", "ALERTS_5", "SOUNDS_2", "SOUNDS_4", "NAV_ICON", "LFA_ICON"}

(* the fields the other composers copy from their snapshot *)
Copied ==
  IF op = "suppress_lfa"
    THEN { Byte(i) : i \in (3 .. (NumBytes - 1)) \ {7} } \cup {"COUNTER"}
  ELSE IF op = "acc_cancel"
    THEN (IF "CANFD_CAMERA_SCC" \in CP.flags
            THEN {"COUNTER", "CHECKSUM", "NEW_SIGNAL_1", "MainMode_ACC", "ACCMode", "ZEROS_9",
                  "CRUISE_STANDSTILL", "ZEROS_5", "DISTANCE_SETTING", "VSetDis"}
            ELSE {"COUNTER", "CHECKSUM", "ACCMode", "VSetDis", "CRUISE_STANDSTILL"})
  ELSE {"ACC_ObjDist", "ACC_ObjRelSpd"}

Snapshot ==
  IF op = "suppress_lfa" THEN arg.lfa_block_msg
  ELSE IF op = "acc_cancel" THEN arg.cruise_info_copy
  ELSE arg.cruise_info.d

FieldMissing ==
  IF op = "ccnc"
    THEN \/ ~ (CcncReads \subseteq DOMAIN hist.CS0.msg_161)
         \/ ~ (FaultFields \subseteq DOMAIN hist.CS0.msg_162)
    ELSE /\ (op = "acc_control" => arg.cruise_info.present)
         /\ ~ (Copied \subseteq DOMAIN Snapshot)

Failed == ret.status = "KeyError" /\ Frames = << >>

SnapOps == {"ccnc", "suppress_lfa", "acc_cancel", "acc_control"}

(* C5 as stated: a composer given a snapshot that lacks a field it reads   *)
(* or overlays (a cluster page without an ALERTS_*, SOUNDS_*, NAV_ICON or  *)
(* FAULT_* field, a cruise-status snapshot without a copied field) fails   *)
(* loudly and emits no frame.                                              *)
C5_MissingFieldFails ==
  (done /\ op \in SnapOps /\ FieldMissing) => Failed

ConditionalOnly == {"ALERTS_2", "ALERTS_3", "ALERTS_5", "SOUNDS_4", "NAV_ICON"}

(* C5 amended: create_suppress_lfa, create_acc_cancel and                  *)
(* create_acc_control (given a cruise-status snapshot) raise and emit no   *)
(* frame exactly when a field they copy from the snapshot is missing;      *)
(* create_ccnc never fails on a missing field: it returns both frames,     *)
(* with the fault fields written as 0 on page B and a missing page A field *)
(* that only a conditional rule reads left absent.                         *)
C5_CopyFailsOverlayTolerates ==
  (done /\ op \in SnapOps) =>
    IF op = "ccnc"
      THEN /\ ret.status = "ok" /\ Len(Frames) = 2
           /\ \A f \in ConditionalOnly \ DOMAIN hist.CS0.msg_161 : f \notin DOMAIN Frames[1].dat
           /\ \A f \in FaultFields : f \in DOMAIN Frames[2].dat /\ Frames[2].dat[f] = 0
      ELSE IF FieldMissing
        THEN Failed
        ELSE ret.status = "ok" /\ Len(Frames) = 1

C5_Witness ==
  /\ done /\ op = "ccnc"
  /\ DOMAIN hist.CS0.msg_161 \cap ConditionalOnly = {}
  /\ "SOUNDS_2" \notin DOMAIN hist.CS0.msg_161
  /\ ret.status = "ok" /\ Len(Frames) = 2
  /\ DOMAIN Frames[1].dat \cap ConditionalOnly = {}
  /\ Frames[1].dat["LFA_ICON"] = 2

C5_WitnessRaise ==
  /\ done /\ op = "acc_cancel"
  /\ "CRUISE_STANDSTILL" \notin DOMAIN arg.cruise_info_copy
  /\ Failed

(* ---- C6 ---- *)
Multiples(k, n) == (n + k - 1) \div k

(* C6: with the cycle counter stepping 0, 1, ..., 99, ADRV_0x51 is emitted *)
(* on every cycle, ADRV_0x160 exactly 50 times (only when n mod 2 = 0),    *)
(* ADRV_0x1ea and ADRV_0x200 exactly 20 times each, ADRV_0x345 exactly 5   *)
(* times, ADRV_0x1da exactly once; ADRV_0x51 is on the camera bus and      *)
(* every other frame on the ECU bus.                                       *)
C6_Cadence ==
  (op = "adrv") =>
    /\ (frame = 100 =>
          sent = [n \in AdrvNames |->
                    CASE n = "ADRV_0x51" -> 100
                      [] n = "ADRV_0x160" -> 50
                      [] n = "ADRV_0x1ea" -> 20
                      [] n = "ADRV_0x200" -> 20
                      [] n = "ADRV_0x345" -> 5
                      [] n = "ADRV_0x1da" -> 1])
    /\ sent["ADRV_0x51"] = frame
    /\ sent["ADRV_0x160"] = Multiples(2, frame)
    /\ (done =>
          /\ CountOf(Frames, "ADRV_0x51") = 1
          /\ (CountOf(Frames, "ADRV_0x160") = 1) = ((frame - 1) % 2 = 0)
          /\ \A i \in 1 .. Len(Frames) :
               /\ Frames[i].msg \in AdrvNames
               /\ Frames[i].bus = (IF Frames[i].msg = "ADRV_0x51" THEN ACAN(CAN) ELSE ECAN(CAN)))

C6_Witness ==
  /\ op = "adrv" /\ frame = 100
  /\ sent["ADRV_0x1da"] = 1 /\ sent["ADRV_0x1ea"] = 20
  /\ ACAN(CAN) # ECAN(CAN)
  /\ Frames[1].bus = ACAN(CAN)

====
